---- MODULE Spec2Model ----
(***************************************************************************)
(* Model of TGBot.py: a Telegram weather bot in webhook mode.              *)
(*                                                                         *)
(* The module-level configuration check, main() with its Flask listener    *)
(* thread and application.run_webhook, the Flask routes, the three command *)
(* handlers, the error handler and the fetch-and-format pipeline           *)
(* (get_weather_data, format_weather_message) are modelled as one state    *)
(* machine.  The weather provider, the Telegram platform and the HTTP      *)
(* clients are the environment: their inputs are drawn with \E.            *)
(***************************************************************************)
EXTENDS Integers, Sequences, FiniteSets, TLC

VARIABLES
    env,            \* os.environ after load_dotenv(): TELEGRAM_TOKEN, API_KEY
    pc,             \* position of the main thread
    startupError,   \* the variable named by the ValueError of lines 26-29
    handlers,       \* commands registered with application.add_handler
    errorHandlers,  \* callbacks registered with application.add_error_handler
    routes,         \* URL rules registered on flask_app
    flask,          \* state of the daemon thread running run_flask
    portOwner,      \* which listener is bound to 0.0.0.0:PORT
    webhookSet,     \* whether the platform holds a webhook for the bot
    update_queue,   \* application.update_queue
    inflight,       \* the update whose handler is blocked inside requests.get
    nextId,         \* number of updates the platform has sent so far
    fetchCalls,     \* number of calls of get_weather_data
    handled,        \* per command, number of updates given to its handler
    last,           \* what the handler invocation that ended last did, until
                    \* the next one begins
    replied,        \* ids of the updates that were sent a reply
    crashed,        \* ids of the updates whose handling raised an error
    lastHttp        \* the most recent inbound HTTP exchange

vars == <<env, pc, startupError, handlers, errorHandlers, routes, flask,
          portOwner, webhookSet, update_queue, inflight, nextId, fetchCalls,
          handled, last, replied, crashed, lastHttp>>

(***************************************************************************)
(* Bounds of the model.                                                    *)
(***************************************************************************)
MaxUpdates == 2     \* updates the platform sends in one run
MaxQueue == 2       \* updates waiting in update_queue at once
MaxMissing == 1     \* keys a provider payload may lack

(***************************************************************************)
(* Text.  A message is a sequence of tokens; a token is a literal piece of *)
(* a template, a number rendered by an f-string, or a string taken from    *)
(* the data (a sequence of characters).  The Russian literals of the       *)
(* source are transliterated and its emoji dropped.                        *)
(***************************************************************************)
Lit(s) == [k |-> "lit", s |-> s, n |-> 0, c |-> <<>>]
Num(n) == [k |-> "num", s |-> "", n |-> n, c |-> <<>>]
Str(c) == [k |-> "str", s |-> "", n |-> 0, c |-> c]
Txt(s) == [k |-> "txt", s |-> s, n |-> 0, c |-> <<>>]

Letters == {"s", "S", "n", "N", "o", "O"}
LowerOf == [ch \in Letters |->
              CASE ch = "S" -> "s" [] ch = "N" -> "n" [] ch = "O" -> "o"
                [] OTHER -> ch]
UpperOf == [ch \in Letters |->
              CASE ch = "s" -> "S" [] ch = "n" -> "N" [] ch = "o" -> "O"
                [] OTHER -> ch]

\* str.capitalize(): first character upper case, the rest lower case
Capitalize(c) ==
    [i \in 1..Len(c) |-> IF i = 1 THEN UpperOf[c[i]] ELSE LowerOf[c[i]]]

\* local time zone of the host, seconds east of UTC
TZOffset == 10800

\* datetime.fromtimestamp(t).strftime("%H:%M:%S")
HMS(t) ==
    LET l == t + TZOffset
        h == (l \div 3600) % 24
        m == (l \div 60) % 60
        s == l % 60
    IN << Num(h \div 10), Num(h % 10), Lit(":"),
          Num(m \div 10), Num(m % 10), Lit(":"),
          Num(s \div 10), Num(s % 10) >>

\* readings of datetime.now(), seconds since the epoch
ClockReadings == {1700000000, 1700050399}

(***************************************************************************)
(* Weather payloads.  A JSON object is a record with the set of keys that  *)
(* are present and a value for every key (the value of an absent key is    *)
(* never read).  data = None is encoded by isNone.                         *)
(***************************************************************************)
TopKeys == {"name", "weather", "main", "wind", "sys"}
MainKeys == {"temp", "humidity", "pressure", "grnd_level"}

CityName == <<"S", "n">>
Description == <<"s", "N", "o", "S">>
TempVal == 5
HumidityVal == 80
PressureVal == 1013
GrndLevelVal == 1000
WindSpeedVal == 3
SunsetVal == 1700040000

WeatherItems == { <<>>, << {} >>, << {"description"} >> }

Payloads ==
    [ isNone : {FALSE},
      keys : SUBSET TopKeys,
      weather : WeatherItems,         \* list of objects, each by its keys
      main : SUBSET MainKeys,
      wind : SUBSET {"speed"},
      sys : SUBSET {"sunset"} ]

\* an absent sub-object is given one canonical content
Canonical(d) ==
    /\ ("weather" \notin d.keys => d.weather = <<>>)
    /\ ("main" \notin d.keys => d.main = {})
    /\ ("wind" \notin d.keys => d.wind = {})
    /\ ("sys" \notin d.keys => d.sys = {})

JsonObjects == { d \in Payloads : Canonical(d) }

\* the fields format_weather_message needs, and those a payload lacks; the
\* pressure field is there when either of its two keys is
RequiredFields ==
    {"name", "description", "temp", "humidity", "pressure", "speed", "sunset"}

MissingFields(d) ==
    { f \in RequiredFields :
        CASE f = "name" -> "name" \notin d.keys
          [] f = "description" ->
               \/ "weather" \notin d.keys
               \/ d.weather = <<>>
               \/ "description" \notin d.weather[1]
          [] f = "pressure" ->
               \/ "main" \notin d.keys
               \/ d.main \cap {"pressure", "grnd_level"} = {}
          [] f \in {"temp", "humidity"} ->
               "main" \notin d.keys \/ f \notin d.main
          [] f = "speed" -> "wind" \notin d.keys \/ f \notin d.wind
          [] f = "sunset" -> "sys" \notin d.keys \/ f \notin d.sys }

None == [ isNone |-> TRUE, keys |-> {}, weather |-> <<>>, main |-> {},
          wind |-> {}, sys |-> {} ]

EmptyObject == [ isNone |-> FALSE, keys |-> {}, weather |-> <<>>, main |-> {},
                 wind |-> {}, sys |-> {} ]

\* the number of keys and list items a payload lacks, compared with a
\* complete response (main.grnd_level is optional)
Omissions(d) ==
    Cardinality(TopKeys \ d.keys)
      + (IF "weather" \notin d.keys THEN 0
         ELSE IF d.weather = <<>> THEN 1
         ELSE Cardinality({"description"} \ d.weather[1]))
      + (IF "main" \notin d.keys THEN 0
         ELSE Cardinality({"temp", "humidity", "pressure"} \ d.main))
      + (IF "wind" \notin d.keys THEN 0
         ELSE Cardinality({"speed"} \ d.wind))
      + (IF "sys" \notin d.keys THEN 0
         ELSE Cardinality({"sunset"} \ d.sys))

\* the bodies of the provider's 2xx responses
ProviderBodies ==
    { d \in JsonObjects : Omissions(d) <= MaxMissing } \cup {EmptyObject}

(***************************************************************************)
(* get_weather_data.  The provider call has one of these outcomes.         *)
(***************************************************************************)
FailureOutcomes == {"connection_error", "timeout", "http_error", "bad_json"}
Outcomes == FailureOutcomes \cup {"ok"}

\* the exception raised inside the try block of get_weather_data
FetchException(outcome) ==
    CASE outcome = "connection_error" -> "ConnectionError"   \* requests.get
      [] outcome = "timeout" -> "Timeout"                    \* requests.get
      [] outcome = "http_error" -> "HTTPError"        \* r.raise_for_status()
      [] outcome = "bad_json" -> "ValueError"                \* r.json()
      [] OTHER -> "none"

\* the subclasses of requests.exceptions.RequestException raised above (the
\* decode error of r.json() is a ValueError, caught by the second clause)
RequestExceptions == {"ConnectionError", "Timeout", "HTTPError"}

\* get_weather_data without its second except clause
get_weather_data_OnlyRequestException(outcome, body) ==
    LET e == FetchException(outcome) IN
    IF e = "none"
    THEN [raised |-> "none", value |-> body, logged |-> <<>>]
    ELSE IF e \in RequestExceptions
    THEN [raised |-> "none", value |-> None,
          logged |-> << <<"Oshibka pri zaprose k API pogody", e>> >>]
    ELSE [raised |-> e, value |-> None, logged |-> <<>>]

\* returns [raised, value, logged]
get_weather_data(outcome, body) ==
    LET e == FetchException(outcome) IN
    IF e = "none"
    THEN [raised |-> "none", value |-> body, logged |-> <<>>]
    ELSE IF e \in RequestExceptions
    THEN [raised |-> "none", value |-> None,
          logged |-> << <<"Oshibka pri zaprose k API pogody", e>> >>]
    ELSE [raised |-> "none", value |-> None,
          logged |-> << <<"Oshibka pri obrabotke dannykh", e>> >>]

(***************************************************************************)
(* format_weather_message.                                                 *)
(***************************************************************************)
FailMsg == << Lit("[x] Ne udalos poluchit dannye o pogode. Poprobuyte pozzhe.") >>
ErrMsg == << Lit("[x] Oshibka pri obrabotke dannykh o pogode.") >>

\* Python truthiness of data: None and the empty dict are falsy
Falsy(data) == data.isNone \/ data.keys = {}

\* the exception of each statement of the try block, in program order
LookupExceptions(data) ==
    << \* city_name = data["name"]
       IF "name" \in data.keys THEN "none" ELSE "KeyError",
       \* weather_desc = data["weather"][0]["description"].capitalize()
       IF "weather" \notin data.keys THEN "KeyError"
       ELSE IF Len(data.weather) = 0 THEN "IndexError"
       ELSE IF "description" \in data.weather[1] THEN "none" ELSE "KeyError",
       \* temp = data["main"]["temp"]
       IF "main" \in data.keys /\ "temp" \in data.main
       THEN "none" ELSE "KeyError",
       \* humidity = data["main"]["humidity"]
       IF "main" \in data.keys /\ "humidity" \in data.main
       THEN "none" ELSE "KeyError",
       \* pressure = data["main"].get("grnd_level", data["main"]["pressure"])
       \* the default argument is evaluated before .get is called
       IF "main" \in data.keys /\ "pressure" \in data.main
       THEN "none" ELSE "KeyError",
       \* wind_speed = data["wind"]["speed"]
       IF "wind" \in data.keys /\ "speed" \in data.wind
       THEN "none" ELSE "KeyError",
       \* sunset_timestamp = data["sys"]["sunset"]
       IF "sys" \in data.keys /\ "sunset" \in data.sys
       THEN "none" ELSE "KeyError" >>

FirstException(excs) ==
    IF \A i \in 1..Len(excs) : excs[i] = "none" THEN "none"
    ELSE excs[CHOOSE i \in 1..Len(excs) :
                /\ excs[i] # "none"
                /\ \A j \in 1..(i - 1) : excs[j] = "none"]

\* dict.get(key, default) on data["main"]
RenderedPressure(data) ==
    IF "grnd_level" \in data.main THEN GrndLevelVal ELSE PressureVal

WeatherTemplate(data, now) ==
    << Lit("**Pogoda v "), Str(CityName), Lit("**\n\n"),
       Lit("**Opisanie:** "), Str(Capitalize(Description)), Lit("\n"),
       Lit("**Temperatura:** "), Num(TempVal), Lit(" C\n"),
       Lit("**Vlazhnost:** "), Num(HumidityVal), Lit("%\n"),
       Lit("**Davlenie:** "), Num(RenderedPressure(data)), Lit(" gPa\n"),
       Lit("**Skorost vetra:** "), Num(WindSpeedVal), Lit(" m/s\n"),
       Lit("**Zakat:** ") >> \o HMS(SunsetVal) \o
    << Lit("\n\n"), Lit("Obnovleno: ") >> \o HMS(now)

\* position of the pressure value in WeatherTemplate
PressureToken == 14

\* returns [raised, text, logged]
format_weather_message(data, now) ==
    IF Falsy(data)
    THEN [raised |-> "none", text |-> FailMsg, logged |-> <<>>]
    ELSE LET e == FirstException(LookupExceptions(data)) IN
         IF e = "none"
         THEN [raised |-> "none", text |-> WeatherTemplate(data, now),
               logged |-> <<>>]
         ELSE IF e = "KeyError"
         THEN [raised |-> "none", text |-> ErrMsg,
               logged |-> << <<"Oshibka v strukture dannykh pogody", e>> >>]
         ELSE [raised |-> e, text |-> <<>>, logged |-> <<>>]

(***************************************************************************)
(* Updates and command handlers.                                           *)
(***************************************************************************)
Chats == {1, 2}
FirstName == [c \in Chats |-> IF c = 1 THEN "Ann" ELSE "Bob"]
Commands == {"start", "help", "weather"}

NoUpdate == [id |-> 0, chat |-> 0, first_name |-> "", cmd |-> ""]

Update(i, c, cmd) ==
    [id |-> i, chat |-> c, first_name |-> FirstName[c], cmd |-> cmd]

welcome_text(first_name) ==
    << Lit("Privet, "), Txt(first_name), Lit("! \n"),
       Lit("Ya bot, kotoryy pokazyvaet aktualnuyu pogodu.\n\n") >>

help_text ==
    << Lit("**Spravka po komandam:**\n\n"),
       Lit("/start - Pokazat pogodu v Sankt-Peterburge\n"),
       Lit("/help - Pokazat etu spravku\n"),
       Lit("/weather - Pokazat tekushchuyu pogodu\n\n"),
       Lit("Bot avtomaticheski pokazyvaet aktualnuyu pogodu "),
       Lit("dlya zaranee zadannogo goroda.") >>

\* A handler runs up to its reply_text call: it returns the exception that
\* escaped it before the call, or the text it passes to reply_text.
start(update, outcome, body, now) ==
    LET weather_data == get_weather_data(outcome, body)
        weather_message == format_weather_message(weather_data.value, now)
    IN  IF weather_data.raised # "none"
        THEN [raised |-> weather_data.raised, text |-> <<>>,
              data |-> None, formatted |-> <<>>]
        ELSE IF weather_message.raised # "none"
        THEN [raised |-> weather_message.raised, text |-> <<>>,
              data |-> weather_data.value, formatted |-> <<>>]
        ELSE [raised |-> "none",
              text |-> welcome_text(update.first_name) \o weather_message.text,
              data |-> weather_data.value,
              formatted |-> weather_message.text]

help_command(update) ==
    [raised |-> "none", text |-> help_text, data |-> None, formatted |-> <<>>]

weather_command(update, outcome, body, now) ==
    LET weather_data == get_weather_data(outcome, body)
        weather_message == format_weather_message(weather_data.value, now)
    IN  IF weather_data.raised # "none"
        THEN [raised |-> weather_data.raised, text |-> <<>>,
              data |-> None, formatted |-> <<>>]
        ELSE IF weather_message.raised # "none"
        THEN [raised |-> weather_message.raised, text |-> <<>>,
              data |-> weather_data.value, formatted |-> <<>>]
        ELSE [raised |-> "none", text |-> weather_message.text,
              data |-> weather_data.value,
              formatted |-> weather_message.text]

\* an error_handler that also sends the user an apology
error_handler_Apologise(update, error) ==
    [logged |-> << [msg |-> "Oshibka pri obrabotke update",
                    update |-> update, error |-> error] >>,
     replies |-> << [chat |-> update.chat,
                     text |-> << Lit("Izvinite, proizoshla oshibka.") >>] >>]

\* error_handler only logs: it returns the log lines it writes and sends nothing
error_handler(update, error) ==
    [logged |-> << [msg |-> "Oshibka pri obrabotke update",
                    update |-> update, error |-> error] >>,
     replies |-> <<>>]

\* outcomes of update.message.reply_text: delivered, or an error of the
\* platform call raised to the handler
SendOutcomes == {"ok", "TelegramError"}

NoLast ==
    [update |-> NoUpdate, outcome |-> "none", data |-> None,
     formatted |-> <<>>, send |-> "not_attempted", error |-> "none",
     replies |-> <<>>, errlog |-> <<>>]

\* The application runs one handler invocation to its end: the handler's
\* reply_text call, and the error callbacks when an exception escaped.
Invocation(update, outcome, h, sendOutcome) ==
    LET send == IF h.raised = "none" THEN sendOutcome ELSE "not_attempted"
        error == IF h.raised # "none" THEN h.raised
                 ELSE IF send = "ok" THEN "none" ELSE send
        sent == IF send = "ok"
                THEN << [chat |-> update.chat, text |-> h.text] >>
                ELSE <<>>
        cb == IF error # "none" /\ "error_handler" \in errorHandlers
              THEN error_handler(update, error)
              ELSE [logged |-> <<>>, replies |-> <<>>]
    IN  [update |-> update, outcome |-> outcome, data |-> h.data,
         formatted |-> h.formatted, send |-> send, error |-> error,
         replies |-> sent \o cb.replies, errlog |-> cb.logged]

(***************************************************************************)
(* Configuration read at import time.                                      *)
(***************************************************************************)
Unset == "<unset>"                      \* os.getenv returns None
EnvValues == {Unset, "", "123:ABC"}

\* "not X" of lines 26 and 28
Missing(v) == v = Unset \/ v = ""

\* the two checks in the opposite order
ConfigCheck_ApiKeyFirst(e) ==
    IF Missing(e.API_KEY) THEN "API_KEY"
    ELSE IF Missing(e.TELEGRAM_TOKEN) THEN "TELEGRAM_TOKEN"
    ELSE "none"

\* The module-level check: the name of the variable whose ValueError is
\* raised, or "none"
ConfigCheck(e) ==
    IF Missing(e.TELEGRAM_TOKEN) THEN "TELEGRAM_TOKEN"
    ELSE IF Missing(e.API_KEY) THEN "API_KEY"
    ELSE "none"

\* names bound in the module's global namespace by its import statements
ImportedNames ==
    {"datetime", "logging", "os", "threading", "load_dotenv", "Flask",
     "jsonify", "requests", "Update", "Application", "CommandHandler",
     "ContextTypes"}

WEBHOOK_PATH == "/webhook/<token>"
\* run_webhook is called without url_path: its listener serves this path
UrlPath == "/"
\* secret_token = WEBHOOK_PATH.split("/")[-1]
SecretToken == "<token>"

NoHttp ==
    [server |-> "none", method |-> "", path |-> "", status |-> 0,
     body |-> "", ts |-> 0, update |-> NoUpdate]

(***************************************************************************)
(* Initial state: the interpreter is about to execute the module.          *)
(***************************************************************************)
Init ==
    /\ env \in [TELEGRAM_TOKEN : EnvValues, API_KEY : EnvValues]
    /\ pc = "import"
    /\ startupError = "none"
    /\ handlers = {}
    /\ errorHandlers = {}
    /\ routes = {"/health", "/"}
    /\ flask = "none"
    /\ portOwner = "none"
    /\ webhookSet = FALSE
    /\ update_queue = <<>>
    /\ inflight = NoUpdate
    /\ nextId = 0
    /\ fetchCalls = 0
    /\ handled = [c \in Commands |-> 0]
    /\ last = NoLast
    /\ replied = {}
    /\ crashed = {}
    /\ lastHttp = NoHttp

(***************************************************************************)
(* Start-up.                                                               *)
(***************************************************************************)
\* lines 23-29: read the keys, raise ValueError when one is missing
ModuleLoad ==
    /\ pc = "import"
    /\ startupError' = ConfigCheck(env)
    /\ pc' = IF ConfigCheck(env) = "none" THEN "loaded" ELSE "startup_error"
    /\ UNCHANGED <<env, handlers, errorHandlers, routes, flask, portOwner,
                   webhookSet, update_queue, inflight, nextId, fetchCalls,
                   handled, last, replied, crashed, lastHttp>>

\* main, lines 188-204: build the application, register the handlers, the
\* error handler and the Flask webhook route
MainSetup ==
    /\ pc = "loaded"
    /\ handlers' = {"start", "help", "weather"}
    /\ errorHandlers' = {"error_handler"}
    /\ routes' = routes \cup {WEBHOOK_PATH}
    /\ pc' = "setup_done"
    /\ UNCHANGED <<env, startupError, flask, portOwner, webhookSet,
                   update_queue, inflight, nextId, fetchCalls, handled, last,
                   replied, crashed, lastHttp>>

\* main, lines 207-208: start the daemon thread that runs run_flask
StartFlaskThread ==
    /\ pc = "setup_done"
    /\ flask' = "starting"
    /\ pc' = "thread_started"
    /\ UNCHANGED <<env, startupError, handlers, errorHandlers, routes,
                   portOwner, webhookSet, update_queue, inflight, nextId,
                   fetchCalls, handled, last, replied, crashed, lastHttp>>

\* run_flask, line 181: flask_app.run binds 0.0.0.0:PORT; the bind fails
\* when the port is taken and the thread ends
run_flask ==
    /\ flask = "starting"
    /\ IF portOwner = "none"
       THEN flask' = "listening" /\ portOwner' = "flask"
       ELSE flask' = "bind_failed" /\ UNCHANGED portOwner
    /\ UNCHANGED <<env, pc, startupError, handlers, errorHandlers, routes,
                   webhookSet, update_queue, inflight, nextId, fetchCalls,
                   handled, last, replied, crashed, lastHttp>>

\* main, lines 211-216: application.run_webhook starts its own listener on
\* the same PORT; the call raises when the port is taken
RunWebhookListen ==
    /\ pc = "thread_started"
    /\ IF portOwner = "none"
       THEN pc' = "bot_listening" /\ portOwner' = "bot"
       ELSE pc' = "run_webhook_raised" /\ UNCHANGED portOwner
    /\ UNCHANGED <<env, startupError, handlers, errorHandlers, routes, flask,
                   webhookSet, update_queue, inflight, nextId, fetchCalls,
                   handled, last, replied, crashed, lastHttp>>

\* run_webhook registers webhook_url with the platform and then dispatches
\* updates; the call raises when the registration is refused or fails
RunWebhookRegister ==
    /\ pc = "bot_listening"
    /\ \E ok \in BOOLEAN :
         IF ok
         THEN /\ webhookSet' = TRUE
              /\ pc' = "serving"
              /\ UNCHANGED portOwner
         ELSE /\ pc' = "run_webhook_raised"
              /\ portOwner' = "none"
              /\ UNCHANGED webhookSet
    /\ UNCHANGED <<env, startupError, handlers, errorHandlers, routes, flask,
                   update_queue, inflight, nextId, fetchCalls, handled, last,
                   replied, crashed, lastHttp>>

\* main, lines 218-219: the except clause logs and main returns; the
\* interpreter exits and takes the daemon thread with it
MainExcept ==
    /\ pc = "run_webhook_raised"
    /\ pc' = "exited"
    /\ flask' = IF flask \in {"starting", "listening"} THEN "killed" ELSE flask
    /\ portOwner' = "none"
    /\ UNCHANGED <<env, startupError, handlers, errorHandlers, routes,
                   webhookSet, update_queue, inflight, nextId, fetchCalls,
                   handled, last, replied, crashed, lastHttp>>

(***************************************************************************)
(* Inbound HTTP.                                                           *)
(***************************************************************************)
\* health_check, lines 43-52
health_check(now) ==
    [status |-> 200, body |-> "healthy telegram-weather-bot", ts |-> now]

\* index, lines 55-64
index(now) ==
    [status |-> 200, body |-> "Telegram Weather Bot is running active",
     ts |-> now]

\* webhook, lines 199-204.  The view reads the global name "request", which
\* no import binds: the NameError becomes Flask's 500 response.  With the
\* name bound the view calls update_queue.put without awaiting it, which
\* creates a coroutine and puts nothing on the queue.
webhook(update, queue) ==
    IF "request" \notin ImportedNames
    THEN [status |-> 500, body |-> "Internal Server Error", queue |-> queue]
    ELSE [status |-> 200, body |-> "ok", queue |-> queue]

\* GET /health or GET / on the Flask listener
FlaskGet ==
    /\ flask = "listening"
    /\ \E path \in {"/health", "/"}, now \in ClockReadings :
         LET r == IF path = "/health" THEN health_check(now) ELSE index(now)
         IN  lastHttp' = [server |-> "flask", method |-> "GET", path |-> path,
                          status |-> r.status, body |-> r.body, ts |-> r.ts,
                          update |-> NoUpdate]
    /\ UNCHANGED <<env, pc, startupError, handlers, errorHandlers, routes,
                   flask, portOwner, webhookSet, update_queue, inflight,
                   nextId, fetchCalls, handled, last, replied, crashed>>

\* the platform POSTs an update to /webhook/<token> on the Flask listener
FlaskWebhookPost ==
    /\ flask = "listening"
    /\ WEBHOOK_PATH \in routes
    /\ nextId < MaxUpdates
    /\ \E c \in Chats, cmd \in Commands :
         LET u == Update(nextId + 1, c, cmd)
             r == webhook(u, update_queue)
         IN  /\ update_queue' = r.queue
             /\ lastHttp' = [server |-> "flask", method |-> "POST",
                             path |-> WEBHOOK_PATH, status |-> r.status,
                             body |-> r.body, ts |-> 0, update |-> u]
    /\ nextId' = nextId + 1
    /\ UNCHANGED <<env, pc, startupError, handlers, errorHandlers, routes,
                   flask, portOwner, webhookSet, inflight, fetchCalls,
                   handled, last, replied, crashed>>

\* The listener of run_webhook serves POST on UrlPath only and checks the
\* secret token header before it reads the body and puts the update on
\* update_queue; the body of a refused request is never read.
BotListenerPost ==
    /\ pc = "serving"
    /\ portOwner = "bot"
    /\ nextId < MaxUpdates
    /\ Len(update_queue) < MaxQueue
    /\ \E c \in Chats, cmd \in Commands, path \in {UrlPath, WEBHOOK_PATH},
          secret \in {SecretToken, "other"} :
         LET u == Update(nextId + 1, c, cmd)
             status == IF path # UrlPath THEN 404
                       ELSE IF secret # SecretToken THEN 403
                       ELSE 200
         IN  /\ update_queue' = IF status = 200
                                THEN Append(update_queue, u)
                                ELSE update_queue
             /\ lastHttp' = [server |-> "bot", method |-> "POST",
                             path |-> path, status |-> status, body |-> "",
                             ts |-> 0,
                             update |-> IF status = 200 THEN u ELSE NoUpdate]
    /\ nextId' = nextId + 1
    /\ UNCHANGED <<env, pc, startupError, handlers, errorHandlers, routes,
                   flask, portOwner, webhookSet, inflight, fetchCalls,
                   handled, last, replied, crashed>>

(***************************************************************************)
(* Dispatch.  The application takes one update at a time off update_queue  *)
(* and awaits its handler.  start and weather_command call requests.get    *)
(* synchronously: the event loop's only thread is blocked until the        *)
(* provider answers.                                                       *)
(***************************************************************************)
\* a help_command that fetches the weather like the other two handlers
CallsWeatherClient_HelpFetches(cmd) ==
    CASE cmd = "start" -> TRUE
      [] cmd = "help" -> TRUE
      [] cmd = "weather" -> TRUE

\* whether the handler of the command calls get_weather_data
CallsWeatherClient(cmd) ==
    CASE cmd = "start" -> TRUE
      [] cmd = "help" -> FALSE
      [] cmd = "weather" -> TRUE

HandlerResult(update, outcome, body, now) ==
    CASE update.cmd = "start" -> start(update, outcome, body, now)
      [] update.cmd = "help" -> help_command(update)
      [] update.cmd = "weather" -> weather_command(update, outcome, body, now)

Finish(inv) ==
    /\ last' = inv
    /\ replied' = IF inv.replies # <<>>
                  THEN replied \cup {inv.update.id} ELSE replied
    /\ crashed' = IF inv.error # "none"
                  THEN crashed \cup {inv.update.id} ELSE crashed

Dispatch ==
    /\ pc = "serving"
    /\ inflight = NoUpdate
    /\ update_queue # <<>>
    /\ LET u == Head(update_queue) IN
         /\ u.cmd \in handlers
         /\ update_queue' = Tail(update_queue)
         /\ handled' = [handled EXCEPT ![u.cmd] = @ + 1]
         /\ IF CallsWeatherClient(u.cmd)
            THEN /\ inflight' = u
                 /\ fetchCalls' = fetchCalls + 1
                 /\ last' = NoLast
                 /\ UNCHANGED <<replied, crashed>>
            ELSE /\ \E sendOutcome \in SendOutcomes :
                      Finish(Invocation(u, "none",
                                        HandlerResult(u, "none", None, 0),
                                        sendOutcome))
                 /\ UNCHANGED <<inflight, fetchCalls>>
    /\ UNCHANGED <<env, pc, startupError, handlers, errorHandlers, routes,
                   flask, portOwner, webhookSet, nextId, lastHttp>>

\* requests.get returns or raises; the blocked handler runs to its end
ProviderRespond ==
    /\ pc = "serving"
    /\ inflight # NoUpdate
    /\ \E outcome \in Outcomes, now \in ClockReadings,
          sendOutcome \in SendOutcomes :
         \E body \in IF outcome = "ok" THEN ProviderBodies ELSE {None} :
           Finish(Invocation(inflight, outcome,
                             HandlerResult(inflight, outcome, body, now),
                             sendOutcome))
    /\ inflight' = NoUpdate
    /\ UNCHANGED <<env, pc, startupError, handlers, errorHandlers, routes,
                   flask, portOwner, webhookSet, update_queue, nextId,
                   fetchCalls, handled, lastHttp>>

Next ==
    \/ ModuleLoad
    \/ MainSetup
    \/ StartFlaskThread
    \/ run_flask
    \/ RunWebhookListen
    \/ RunWebhookRegister
    \/ MainExcept
    \/ FlaskGet
    \/ FlaskWebhookPost
    \/ BotListenerPost
    \/ Dispatch
    \/ ProviderRespond

Spec == Init /\ [][Next]_vars

(***************************************************************************)
(* Properties.                                                             *)
(***************************************************************************)
Invoked == last.update # NoUpdate

\* the exceptions that can escape get_weather_data or format_weather_message
PipelineExceptions ==
    {"ConnectionError", "Timeout", "HTTPError", "ValueError", "KeyError",
     "IndexError"}

\* C1: whenever the provider call fails (connection error, timeout, non-2xx
\* status, undecodable body), get_weather_data returns None without raising
\* and format_weather_message of that result is the fixed failure string.
C1_FailedFetchGivesFailMsg ==
    (Invoked /\ last.outcome \in FailureOutcomes) =>
        /\ last.error \notin PipelineExceptions
        /\ last.data = None
        /\ last.formatted = FailMsg

C1_Witness ==
    /\ last.update.cmd = "weather"
    /\ last.outcome = "http_error"
    /\ last.replies = << [chat |-> last.update.chat, text |-> FailMsg] >>

\* C2: for every 2xx payload that lacks at least one required field,
\* format_weather_message returns the fixed "error processing" string and
\* does not raise.
C2_MissingFieldGivesErrMsg ==
    (Invoked /\ last.outcome = "ok" /\ MissingFields(last.data) # {}) =>
        /\ last.error \notin PipelineExceptions
        /\ last.formatted = ErrMsg

\* C3: for every payload whose other required fields are present, the
\* rendered pressure is main.grnd_level when that key is present and
\* main.pressure only when it is absent.
C3_GroundLevelPreferred ==
    (Invoked /\ last.outcome = "ok" /\ MissingFields(last.data) = {}) =>
        /\ Len(last.formatted) >= PressureToken
        /\ last.formatted[PressureToken] =
             Num(IF "grnd_level" \in last.data.main
                 THEN GrndLevelVal ELSE PressureVal)

\* C4: every /start command whose reply the platform does not refuse gets
\* exactly one reply: the greeting with the sender's first name followed
\* immediately by the formatted message of this command's fetch, whether the
\* fetch succeeded or failed.
C4_StartAlwaysGreets ==
    (Invoked /\ last.update.cmd = "start" /\ last.send # "TelegramError") =>
        /\ last.formatted # <<>>
        /\ last.replies =
             << [chat |-> last.update.chat,
                 text |-> welcome_text(last.update.first_name)
                            \o last.formatted] >>

\* C5: the number of provider calls equals the number of /start and
\* /weather commands handled; a /help command makes no provider call and
\* its reply is the static help text.
C5_HelpNeverFetches ==
    /\ fetchCalls = handled["start"] + handled["weather"]
    /\ (Invoked /\ last.update.cmd = "help") =>
          /\ last.outcome = "none"
          /\ (last.send = "ok" =>
                last.replies = << [chat |-> last.update.chat,
                                   text |-> help_text] >>)

C5_Witness ==
    /\ handled["help"] = 1
    /\ fetchCalls = 1
    /\ last.update.cmd = "help"
    /\ last.replies # <<>>

\* C6: when TELEGRAM_TOKEN or API_KEY is unset or empty the process never
\* gets past the import: no Flask thread, no listener, no webhook, no
\* command handled; the start-up error names the missing variable, and
\* TELEGRAM_TOKEN when both are missing.
C6_MissingConfigNeverServes ==
    (Missing(env.TELEGRAM_TOKEN) \/ Missing(env.API_KEY)) =>
        /\ pc \in {"import", "startup_error"}
        /\ flask = "none"
        /\ portOwner = "none"
        /\ ~webhookSet
        /\ handlers = {}
        /\ \A c \in Commands : handled[c] = 0
        /\ (pc = "startup_error" =>
              startupError = IF Missing(env.TELEGRAM_TOKEN)
                             THEN "TELEGRAM_TOKEN" ELSE "API_KEY")

C6_Witness ==
    /\ Missing(env.TELEGRAM_TOKEN)
    /\ Missing(env.API_KEY)
    /\ pc = "startup_error"
    /\ startupError = "TELEGRAM_TOKEN"

\* C7: when run_webhook has failed or returned with an error the Flask
\* listener thread is still there to answer GET /health, and the bot
\* listener never keeps the Flask listener from binding PORT.
C7_HealthSurvivesDispatcher ==
    /\ (pc \in {"run_webhook_raised", "exited"} =>
          flask \in {"starting", "listening"})
    /\ flask # "bind_failed"

\* C8: every update POSTed to /webhook/<token> is answered "ok" and is put
\* on the update queue (where it waits, is being handled or was handled).
C8_WebhookPostQueued ==
    (lastHttp.method = "POST" /\ lastHttp.path = WEBHOOK_PATH) =>
        /\ lastHttp.status = 200
        /\ lastHttp.body = "ok"
        /\ \/ \E i \in 1..Len(update_queue) : update_queue[i] = lastHttp.update
           \/ inflight = lastHttp.update
           \/ lastHttp.update.id \in replied \cup crashed

\* C9: a command whose weather fetch has not returned does not keep the
\* /help of another chat, waiting at the head of the queue, from being
\* handled.
C9_HelpNotBlockedByFetch ==
    ( /\ inflight # NoUpdate
      /\ update_queue # <<>>
      /\ Head(update_queue).cmd = "help"
      /\ Head(update_queue).chat # inflight.chat ) => ENABLED Dispatch

\* C10: when handling a command raises an uncaught error, error_handler
\* logs the error with the update, the command gets no reply of any kind,
\* and the application keeps dispatching.
C10_CrashLoggedNoReply ==
    /\ (Invoked /\ last.error # "none") =>
          /\ last.errlog = << [msg |-> "Oshibka pri obrabotke update",
                               update |-> last.update,
                               error |-> last.error] >>
          /\ last.replies = <<>>
    /\ crashed \cap replied = {}
    /\ (crashed # {} => pc = "serving")
    /\ (crashed # {} /\ inflight = NoUpdate /\ update_queue # <<>>) =>
          ENABLED Dispatch

C10_Witness ==
    /\ crashed = {1}
    /\ replied = {2}
    /\ last.update.id = 2
    /\ last.error = "none"

====
